---- MODULE Spec2Model ----
(***************************************************************************)
(* The Census table normalisers of etl/: normalize_census_a5a.py (several  *)
(* header blocks on one sheet, citizen preferred) and                      *)
(* normalize_census_a5b.py (one header row, total preferred), with their   *)
(* helpers clean_percentage_like and is_year_str.                          *)
(*                                                                         *)
(* A Python str is a sequence of characters; a character is a one-letter   *)
(* string, or "U+XXXX" for a code point that is not written literally.     *)
(* Row and column indices are 0-based as in the source; Iat converts.      *)
(***************************************************************************)
EXTENDS Integers, Sequences, FiniteSets, TLC

VARIABLES
  prog,         \* the entry point that runs: "a5a", "a5b", "clean_a5a", "clean_a5b", "is_year_str"
  df,           \* the DataFrame after both dropna calls: a sequence of rows of cells
  pc,           \* the position in the entry point
  blocks,       \* normalize_a5a: the list find_header_blocks returned
  bi,           \* normalize_a5a: how many blocks the for loop has parsed
  visited,      \* per parsed block, the rows whose body parse_block ran (history)
  all_records,  \* normalize_a5a: all_records; normalize_a5b: records
  unsorted,     \* the record list as it was just before list.sort (history)
  header_row,   \* normalize_a5b: header_row
  year_map,     \* normalize_a5b: year_map
  err,          \* the exception that ended the run, "" when none
  arg,          \* the argument of the helper under test
  ret           \* what the helper returned or raised

vars == <<prog, df, pc, blocks, bi, visited, all_records, unsorted,
          header_row, year_map, err, arg, ret>>

(***************************************************************************)
(* Python values                                                           *)
(***************************************************************************)
PyNone == [t |-> "none"]
PyInt(n) == [t |-> "int", v |-> n]
PyText(s) == [t |-> "str", s |-> s]
Raised(e) == [t |-> "raise", exc |-> e]

\* A float is nan, +-inf, or the finite decimal (-1)^neg * mant * 10^exp with
\* mant free of trailing zeros.  Decimal literals of up to 15 significant
\* digits denote distinct doubles, so equality of these is equality of the
\* floats for every literal of the model.
PyFloat(k, neg, mant, exp) == [t |-> "float", k |-> k, neg |-> neg, mant |-> mant, exp |-> exp]
NaN == PyFloat("nan", FALSE, 0, 0)
Inf(neg) == PyFloat("inf", neg, 0, 0)

RECURSIVE Fin(_, _, _)
Fin(neg, mant, exp) ==
  IF mant = 0 THEN PyFloat("fin", neg, 0, 0)
  ELSE IF mant % 10 = 0 THEN Fin(neg, mant \div 10, exp + 1)
  ELSE PyFloat("fin", neg, mant, exp)

IsFinite(x) == x.t = "float" /\ x.k = "fin"

(***************************************************************************)
(* Characters                                                              *)
(***************************************************************************)
AsciiDigits == <<"0", "1", "2", "3", "4", "5", "6", "7", "8", "9">>
UpperCase == <<"A", "B", "C", "D", "E", "F", "G", "H", "I", "J", "K", "L", "M",
               "N", "O", "P", "Q", "R", "S", "T", "U", "V", "W", "X", "Y", "Z">>
LowerCase == <<"a", "b", "c", "d", "e", "f", "g", "h", "i", "j", "k", "l", "m",
               "n", "o", "p", "q", "r", "s", "t", "u", "v", "w", "x", "y", "z">>

\* Code points 32..126 in order.
AsciiPrintable ==
  <<" ", "!", "U+0022", "#", "$", "%", "&", "'", "(", ")", "*", "+", ",", "-", ".", "/">>
  \o AsciiDigits \o <<":", ";", "<", "=", ">", "?", "@">> \o UpperCase
  \o <<"[", "U+005C", "]", "^", "_", "U+0060">> \o LowerCase \o <<"{", "|", "}", "~">>

IndexOf(seq, c) == CHOOSE i \in 1..Len(seq) : seq[i] = c
InSeq(seq, c) == \E i \in 1..Len(seq) : seq[i] = c

\* Characters outside printable ASCII that the model uses:
\*   U+0009 tab, U+000A line feed, U+00A0 no-break space (all str.isspace),
\*   U+0660..U+0662 ARABIC-INDIC DIGIT ZERO..TWO (category Nd),
\*   U+00B2 SUPERSCRIPT TWO, U+2070 SUPERSCRIPT ZERO (category No, digit).
ArabicIndic == <<"U+0660", "U+0661", "U+0662">>
Superscripts == {"U+00B2", "U+2070"}

CodePoint(c) ==
  IF InSeq(AsciiPrintable, c) THEN 31 + IndexOf(AsciiPrintable, c)
  ELSE IF c = "U+0009" THEN 9
  ELSE IF c = "U+000A" THEN 10
  ELSE IF c = "U+00A0" THEN 160
  ELSE IF c = "U+00B2" THEN 178
  ELSE IF InSeq(ArabicIndic, c) THEN 1631 + IndexOf(ArabicIndic, c)
  ELSE 8304

IsSpace(c) == c \in {" ", "U+0009", "U+000A", "U+00A0"}
IsAsciiDigit(c) == InSeq(AsciiDigits, c)
\* A Unicode decimal digit (category Nd): what int() and float() read as a digit.
IsDecimal(c) == IsAsciiDigit(c) \/ InSeq(ArabicIndic, c)
\* str.isdigit on one character: decimals and the other digit characters.
IsDigitChar(c) == IsDecimal(c) \/ c \in Superscripts
DecimalValue(c) ==
  IF IsAsciiDigit(c) THEN IndexOf(AsciiDigits, c) - 1 ELSE IndexOf(ArabicIndic, c) - 1

LowerChar(c) == IF InSeq(UpperCase, c) THEN LowerCase[IndexOf(UpperCase, c)] ELSE c

(***************************************************************************)
(* str methods                                                             *)
(***************************************************************************)
Lower(s) == [i \in 1..Len(s) |-> LowerChar(s[i])]

Strip(s) ==
  LET keep == {i \in 1..Len(s) : ~IsSpace(s[i])}
  IN  IF keep = {} THEN <<>>
      ELSE LET lo == CHOOSE i \in keep : \A j \in keep : i <= j
               hi == CHOOSE i \in keep : \A j \in keep : j <= i
           IN  SubSeq(s, lo, hi)

StartsWith(s, p) == Len(s) >= Len(p) /\ SubSeq(s, 1, Len(p)) = p

\* s.replace(c, empty) for a one-character c.
Remove(s, c) == SelectSeq(s, LAMBDA x : x # c)

\* str.isdigit: non-empty and every character a digit character.
IsDigit(s) == Len(s) > 0 /\ \A i \in 1..Len(s) : IsDigitChar(s[i])

RECURSIVE DigitsValue(_)
DigitsValue(s) ==
  IF s = <<>> THEN 0
  ELSE 10 * DigitsValue(SubSeq(s, 1, Len(s) - 1)) + DecimalValue(s[Len(s)])

RECURSIVE NatToStr(_)
NatToStr(n) ==
  IF n < 10 THEN <<AsciiDigits[n + 1]>>
  ELSE NatToStr(n \div 10) \o <<AsciiDigits[(n % 10) + 1]>>

\* Lexicographic order of two strings by code point (Python's str <).
RECURSIVE StrLess(_, _)
StrLess(a, b) ==
  IF b = <<>> THEN FALSE
  ELSE IF a = <<>> THEN TRUE
  ELSE IF a[1] = b[1] THEN StrLess(Tail(a), Tail(b))
  ELSE CodePoint(a[1]) < CodePoint(b[1])

(***************************************************************************)
(* Built-ins: str(), float(), int()                                        *)
(***************************************************************************)
Zeros(n) == [i \in 1..n |-> "0"]

\* The digits d of a finite non-zero float with the decimal point after the
\* first p of them: positional for a decimal exponent p - 1 in -4..15,
\* scientific with a two-digit exponent otherwise (float_repr_style short).
ReprExp(e) ==
  IF e < 0 THEN <<"e", "-">> \o (IF -e < 10 THEN <<"0">> ELSE <<>>) \o NatToStr(-e)
  ELSE <<"e", "+">> \o (IF e < 10 THEN <<"0">> ELSE <<>>) \o NatToStr(e)

ReprDigits(d, p) ==
  IF -4 <= p - 1 /\ p - 1 < 16 THEN
    IF p <= 0 THEN <<"0", ".">> \o Zeros(-p) \o d
    ELSE IF p < Len(d) THEN SubSeq(d, 1, p) \o <<".">> \o SubSeq(d, p + 1, Len(d))
    ELSE d \o Zeros(p - Len(d)) \o <<".", "0">>
  ELSE <<d[1]>> \o (IF Len(d) > 1 THEN <<".">> \o Tail(d) ELSE <<>>) \o ReprExp(p - 1)

ReprFinite(d, exp) == ReprDigits(d, Len(d) + exp)

\* repr of a float.
FloatRepr(x) ==
  IF x.k = "nan" THEN <<"n", "a", "n">>
  ELSE (IF x.neg THEN <<"-">> ELSE <<>>)
       \o (IF x.k = "inf" THEN <<"i", "n", "f">>
           ELSE IF x.mant = 0 THEN <<"0", ".", "0">>
           ELSE ReprFinite(NatToStr(x.mant), x.exp))

\* str(value) of a cell: None, an int, a float or a str.
PyStr(value) ==
  IF value.t = "none" THEN <<"N", "o", "n", "e">>
  ELSE IF value.t = "int" THEN
         (IF value.v < 0 THEN <<"-">> \o NatToStr(-value.v) ELSE NatToStr(value.v))
  ELSE IF value.t = "float" THEN FloatRepr(value)
  ELSE value.s

\* float(n) of an int cell (ints of the model are far below the overflow).
FloatOfInt(n) == IF n < 0 THEN Fin(TRUE, -n, 0) ELSE Fin(FALSE, n, 0)

\* digitpart ::= digit (["_"] digit)*, digit any Unicode decimal digit.
IsDigitPart(s) ==
  /\ Len(s) > 0
  /\ IsDecimal(s[1])
  /\ IsDecimal(s[Len(s)])
  /\ \A i \in 1..Len(s) :
       \/ IsDecimal(s[i])
       \/ (s[i] = "_" /\ 1 < i /\ i < Len(s) /\ IsDecimal(s[i - 1]) /\ IsDecimal(s[i + 1]))

\* The first index of s holding a character of cs, 0 when there is none.
FirstIndex(s, cs) ==
  LET hits == {i \in 1..Len(s) : s[i] \in cs}
  IN  IF hits = {} THEN 0 ELSE CHOOSE i \in hits : \A j \in hits : i <= j

RECURSIVE Pow10(_)
Pow10(n) == IF n = 0 THEN 1 ELSE 10 * Pow10(n - 1)

\* The double nearest to mant * 10^exp, mant of n digits.  The largest double
\* is 1.7976931348623157e308: a decimal of at most 8 digits at or above
\* 1.7976932e308 rounds to infinity, one below 1e-323 rounds to zero
\* (the rounding of subnormals in between is not modelled: finite either way).
ScaleDigits(neg, mant, exp, n) ==
  IF mant = 0 THEN Fin(neg, 0, 0)
  ELSE IF n + exp > 309 THEN Inf(neg)
  ELSE IF n + exp = 309
          /\ (IF n <= 8 THEN mant * Pow10(8 - n) ELSE mant \div Pow10(n - 8)) >= 17976932
    THEN Inf(neg)
  ELSE IF n + exp < -322 THEN Fin(neg, 0, 0)
  ELSE Fin(neg, mant, exp)

Scale(neg, mant, exp) == ScaleDigits(neg, mant, exp, Len(NatToStr(mant)))

\* s up to, and after, its index k; all of s and nothing when k = 0.
Before(s, k) == IF k = 0 THEN s ELSE SubSeq(s, 1, k - 1)
After(s, k) == IF k = 0 THEN <<>> ELSE SubSeq(s, k + 1, Len(s))

HasSign(s) == Len(s) > 0 /\ s[1] \in {"+", "-"}
IsNegative(s) == Len(s) > 0 /\ s[1] = "-"
Unsigned(s) == IF HasSign(s) THEN Tail(s) ELSE s

\* [sign] digitpart, as an integer.
SignedValue(s) ==
  IF IsNegative(s) THEN -DigitsValue(Remove(Unsigned(s), "_"))
  ELSE DigitsValue(Remove(Unsigned(s), "_"))

\* number ::= [digitpart] "." digitpart | digitpart ["."]
IsNumber(ip, fp, dotted) ==
  IF ~dotted THEN IsDigitPart(ip)
  ELSE \/ IsDigitPart(ip) /\ (fp = <<>> \/ IsDigitPart(fp))
       \/ ip = <<>> /\ IsDigitPart(fp)

\* floatnumber ::= number [("e" | "E") [sign] digitpart]
ParseParts(neg, ip, fp, dotted, hasExp, expo) ==
  IF IsNumber(ip, fp, dotted) /\ (~hasExp \/ IsDigitPart(Unsigned(expo)))
    THEN Scale(neg, DigitsValue(Remove(ip, "_") \o Remove(fp, "_")),
               (IF hasExp THEN SignedValue(expo) ELSE 0) - Len(Remove(fp, "_")))
    ELSE Raised("ValueError")

ParseNumber(neg, num, dot, hasExp, expo) ==
  ParseParts(neg, Before(num, dot), After(num, dot), dot # 0, hasExp, expo)

ParseExp(neg, num, hasExp, expo) ==
  ParseNumber(neg, num, FirstIndex(num, {"."}), hasExp, expo)

\* floatvalue without its sign: "inf", "infinity", "nan" in any case, or a floatnumber.
ParseBody(neg, body, e) ==
  IF Lower(body) \in {<<"i", "n", "f">>, <<"i", "n", "f", "i", "n", "i", "t", "y">>} THEN Inf(neg)
  ELSE IF Lower(body) = <<"n", "a", "n">> THEN NaN
  ELSE ParseExp(neg, Before(body, e), e # 0, After(body, e))

ParseStripped(s) == ParseBody(IsNegative(s), Unsigned(s), FirstIndex(Unsigned(s), {"e", "E"}))

\* float(s) of a str: a float, or Raised("ValueError"); surrounding whitespace
\* is ignored.
ParseFloat(s0) == ParseStripped(Strip(s0))

(***************************************************************************)
(* clean_percentage_like and is_year_str                                   *)
(***************************************************************************)
MinYear == 1900
MaxYear == 2100
YearLen == 4

\* try: return float(s) / except ValueError: return None
FloatOrNone(f) == IF f.t = "raise" THEN PyNone ELSE f

\* s.replace('%', '').replace(',', '').strip()
Unformat(s) == Strip(Remove(Remove(s, "%"), ","))

\* The text branch of the a5a cleaner, s already stripped.
CleanText(s) ==
  IF s = <<>> \/ Lower(s) = <<"n", "a", "n">> THEN PyNone
  ELSE FloatOrNone(ParseFloat(Unformat(s)))

\* normalize_census_a5a.py clean_percentage_like: a float, or PyNone.
clean_percentage_like(value) ==
  IF value.t = "none" THEN PyNone
  ELSE IF value.t \in {"int", "float"} THEN
         IF value.t = "float" /\ value.k = "nan" THEN PyNone
         ELSE IF value.t = "int" THEN FloatOfInt(value.v)
         ELSE value
  ELSE CleanText(Strip(PyStr(value)))

\* The text branch of the a5b cleaner: no test for the text 'nan'.
CleanTextB(s) ==
  IF s = <<>> THEN PyNone
  ELSE FloatOrNone(ParseFloat(Unformat(s)))

\* normalize_census_a5b.py clean_percentage_like.
clean_percentage_like_a5b(value) ==
  IF value.t = "none" \/ (value.t = "float" /\ value.k = "nan") THEN PyNone
  ELSE IF value.t = "int" THEN FloatOfInt(value.v)
  ELSE IF value.t = "float" THEN value
  ELSE CleanTextB(Strip(PyStr(value)))

\* int(s) of a str that passed str.isdigit: the value when every character is
\* a decimal digit, ValueError for the other digit characters.
IntOfDigits(s) ==
  IF \A i \in 1..Len(s) : IsDecimal(s[i]) THEN PyInt(DigitsValue(s))
  ELSE Raised("ValueError")

\* if 1900 <= y <= 2100: return y, for y = int(s) or the exception it raised.
YearInRange(y) ==
  IF y.t = "raise" THEN y
  ELSE IF MinYear <= y.v /\ y.v <= MaxYear THEN y
  ELSE PyNone

\* The body of is_year_str after s = s.strip().
YearOfStripped(s) ==
  IF Len(s) = YearLen /\ IsDigit(s) THEN YearInRange(IntOfDigits(s)) ELSE PyNone

\* is_year_str(s): PyInt(y), PyNone, or the exception int() raises.
is_year_str(s0) == YearOfStripped(Strip(s0))

(***************************************************************************)
(* The DataFrame                                                           *)
(***************************************************************************)
NRows(d) == Len(d)
NCols(d) == IF d = <<>> THEN 0 ELSE Len(d[1])
\* df.iat[i, j], 0-based.
Iat(d, i, j) == d[i + 1][j + 1]

\* None as a column index or as header_row.
None == -1

\* The words the sub-header and label tests compare with.
WordTotal == <<"t", "o", "t", "a", "l">>
WordCitizen == <<"c", "i", "t", "i", "z", "e", "n">>
WordTable == <<"t", "a", "b", "l", "e">>
WordNan == <<"n", "a", "n">>
WordUnitedStates == <<"u", "n", "i", "t", "e", "d", " ", "s", "t", "a", "t", "e", "s">>
WordState == <<"s", "t", "a", "t", "e">>

\* A dict keeps insertion order; assigning an existing key keeps its place.
DictSet(m, e) ==
  IF \E k \in 1..Len(m) : m[k].year = e.year
    THEN [k \in 1..Len(m) |-> IF m[k].year = e.year THEN e ELSE m[k]]
    ELSE Append(m, e)

(***************************************************************************)
(* normalize_census_a5a.py: find_header_blocks                             *)
(***************************************************************************)
\* is_year_str(cell) for cell = str(df.iat[i, j]).strip().
HeaderCell(d, i, j) == is_year_str(Strip(PyStr(Iat(d, i, j))))

\* years_in_row of row i: the (j, y) of the year tokens in columns 1.., in order.
years_in_row(d, i) ==
  SelectSeq([j \in 1..(NCols(d) - 1) |-> [j |-> j, y |-> HeaderCell(d, i, j)]],
            LAMBDA c : c.y.t = "int")

\* int() raising inside is_year_str ends find_header_blocks with that exception.
HeaderRowRaises(d, i) == \E j \in 1..(NCols(d) - 1) : HeaderCell(d, i, j).t = "raise"

\* Mutant: a header needs only two year tokens.
IsHeaderCountTwo(n) == n >= 2

\* The header-row test on len(years_in_row).
IsHeaderCount(n) == n >= 3

\* str(df.iat[sub_r, j]).strip().lower() if j < n_cols else ''.
SubHeader(d, sub_r, j) ==
  IF j < NCols(d) THEN Lower(Strip(PyStr(Iat(d, sub_r, j)))) ELSE <<>>

\* (total_idx, citizen_idx) of the year token at column j.
SubHeaderIdx(d, sub_r, j) ==
  LET sub_j == SubHeader(d, sub_r, j)
      sub_j1 == SubHeader(d, sub_r, j + 1)
      total0 == IF StartsWith(sub_j, WordTotal) THEN j ELSE None
      citizen0 == IF StartsWith(sub_j, WordCitizen) THEN j ELSE None
  IN  [total_idx |-> IF StartsWith(sub_j1, WordTotal) /\ total0 = None THEN j + 1 ELSE total0,
       citizen_idx |-> IF StartsWith(sub_j1, WordCitizen) /\ citizen0 = None THEN j + 1 ELSE citizen0]

\* year_map after the first k tokens of years_in_row.
RECURSIVE BuildYearMap(_, _, _, _)
BuildYearMap(d, sub_r, yrs, k) ==
  IF k = 0 THEN <<>>
  ELSE LET idx == SubHeaderIdx(d, sub_r, yrs[k].j)
       IN  DictSet(BuildYearMap(d, sub_r, yrs, k - 1),
                   [year |-> yrs[k].y.v, total_idx |-> idx.total_idx,
                    citizen_idx |-> idx.citizen_idx])

\* Mutant: the scan stops one row sooner.
ScanStopsEarly(d, i) == i < NRows(d) - 2

\* The loop test of the scan.
ScanContinues(d, i) == i < NRows(d) - 1

\* Mutant: the scan resumes at the sub-header row.
AfterHeaderAtSubHeader(sub_r) == sub_r

\* Where the scan resumes after a header at row sub_r - 1.
AfterHeader(sub_r) == sub_r + 1

\* The while loop from cursor i with the blocks found so far.
RECURSIVE Scan(_, _, _)
Scan(d, i, acc) ==
  IF ~ScanContinues(d, i) THEN [blocks |-> acc, exc |-> ""]
  ELSE IF HeaderRowRaises(d, i) THEN [blocks |-> acc, exc |-> "ValueError: invalid literal for int()"]
  ELSE LET yrs == years_in_row(d, i)
           sub_r == i + 1
           ym == BuildYearMap(d, sub_r, yrs, Len(yrs))
       IN  IF IsHeaderCount(Len(yrs)) /\ sub_r < NRows(d) /\ ym # <<>>
             THEN Scan(d, AfterHeader(sub_r), Append(acc, [header_row |-> i, year_map |-> ym]))
             ELSE Scan(d, i + 1, acc)

find_header_blocks(d) == Scan(d, 0, <<>>)

(***************************************************************************)
(* normalize_census_a5a.py: parse_block                                    *)
(***************************************************************************)
BoundaryCell(d, r, j) == is_year_str(PyStr(Iat(d, r, j)))
years_here(d, r) == Cardinality({j \in 1..(NCols(d) - 1) : BoundaryCell(d, r, j).t = "int"})
BoundaryRowRaises(d, r) == \E j \in 1..(NCols(d) - 1) : BoundaryCell(d, r, j).t = "raise"

\* The defensive break of parse_block.
IsBoundaryCount(n) == n >= 3

\* state of row r.
StateLabel(d, r) ==
  LET state_raw == Iat(d, r, 0)
  IN  IF state_raw.t # "none" THEN Strip(PyStr(state_raw)) ELSE <<>>

\* Mutant: the aggregate row is not skipped.
SkipsRowButAggregate(state) ==
  \/ state = <<>>
  \/ StartsWith(Lower(state), WordTable)
  \/ Lower(state) = WordNan

\* The two skip tests on state.
SkipsRow(state) ==
  \/ state = <<>>
  \/ StartsWith(Lower(state), WordTable)
  \/ Lower(state) = WordNan
  \/ Lower(state) = WordUnitedStates

\* Mutant: total preferred in a5a.
col_idx_total_first(e) == IF e.total_idx # None THEN e.total_idx ELSE e.citizen_idx

\* col_idx of one year_map entry: citizen preferred.
col_idx_a5a(e) == IF e.citizen_idx # None THEN e.citizen_idx ELSE e.total_idx

\* The records row r appends, in year_map order.
RowRecords(d, r, state, ym) ==
  LET cand == [k \in 1..Len(ym) |->
                 LET col_idx == col_idx_a5a(ym[k])
                 IN  [year |-> ym[k].year, state |-> state,
                      turnout |-> IF col_idx = None \/ col_idx >= NCols(d) THEN PyNone
                                  ELSE clean_percentage_like(Iat(d, r, col_idx))]]
  IN  SelectSeq(cand, LAMBDA x : x.turnout.t # "none")

\* The while loop from row r; rows collects the rows that got past the break.
RECURSIVE Walk(_, _, _, _, _)
Walk(d, r, ym, recs, rows) ==
  IF ~(r < NRows(d)) THEN [records |-> recs, rows |-> rows, exc |-> ""]
  ELSE IF BoundaryRowRaises(d, r)
    THEN [records |-> recs, rows |-> rows, exc |-> "ValueError: invalid literal for int()"]
  ELSE IF IsBoundaryCount(years_here(d, r)) THEN [records |-> recs, rows |-> rows, exc |-> ""]
  ELSE LET state == StateLabel(d, r)
           emitted == IF SkipsRow(state) THEN <<>> ELSE RowRecords(d, r, state, ym)
       IN  Walk(d, r + 1, ym, recs \o emitted, rows \cup {r})

parse_block(d, hdr, ym) == Walk(d, hdr + 2, ym, <<>>, {})

(***************************************************************************)
(* list.sort(key=lambda r: (r['year'], r['state'])): stable                *)
(***************************************************************************)
KeyLess(a, b) == a.year < b.year \/ (a.year = b.year /\ StrLess(a.state, b.state))

\* Mutant: x goes before its equals (an unstable sort).
InsertBeforeEquals(sorted, x) ==
  LET later == {k \in 1..Len(sorted) : ~KeyLess(sorted[k], x)}
      at == IF later = {} THEN Len(sorted) + 1
            ELSE CHOOSE k \in later : \A m \in later : k <= m
  IN  SubSeq(sorted, 1, at - 1) \o <<x>> \o SubSeq(sorted, at, Len(sorted))

\* x goes before the first element whose key is greater, after its equals.
InsertSorted(sorted, x) ==
  LET later == {k \in 1..Len(sorted) : KeyLess(x, sorted[k])}
      at == IF later = {} THEN Len(sorted) + 1
            ELSE CHOOSE k \in later : \A m \in later : k <= m
  IN  SubSeq(sorted, 1, at - 1) \o <<x>> \o SubSeq(sorted, at, Len(sorted))

RECURSIVE SortRecords(_)
SortRecords(recs) ==
  IF recs = <<>> THEN <<>>
  ELSE InsertSorted(SortRecords(SubSeq(recs, 1, Len(recs) - 1)), recs[Len(recs)])

(***************************************************************************)
(* normalize_census_a5b.py: normalize_a5b                                  *)
(***************************************************************************)
TopRows == 20

\* The first of the top rows whose column 0 is 'state' in any case, else None.
find_state_row(d) ==
  LET top == IF TopRows < NRows(d) THEN TopRows ELSE NRows(d)
      hits == {i \in 0..(top - 1) : Lower(Strip(PyStr(Iat(d, i, 0)))) = WordState}
  IN  IF hits = {} THEN None ELSE CHOOSE i \in hits : \A k \in hits : i <= k

\* re.fullmatch(r'(19|20)\d{2}', cell): \d is any Unicode decimal digit.
MatchesYear(cell) ==
  /\ Len(cell) = 4
  /\ SubSeq(cell, 1, 2) \in {<<"1", "9">>, <<"2", "0">>}
  /\ IsDecimal(cell[3])
  /\ IsDecimal(cell[4])

YearCellB(d, hdr, j) == Strip(PyStr(Iat(d, hdr, j)))

\* (total_idx, citizen_idx) of the year at column j, the swap included.
SubHeaderIdxB(d, hdr, j) ==
  LET sub_total == IF j < NCols(d) THEN Lower(Strip(PyStr(Iat(d, hdr + 1, j)))) ELSE <<>>
      sub_cit == IF (j + 1) < NCols(d) THEN Lower(Strip(PyStr(Iat(d, hdr + 1, j + 1)))) ELSE <<>>
      total0 == IF StartsWith(sub_total, WordTotal) THEN j ELSE None
      citizen0 == IF StartsWith(sub_cit, WordCitizen) THEN j + 1 ELSE None
      citizen1 == IF total0 = None /\ StartsWith(sub_total, WordCitizen) THEN j ELSE citizen0
      total1 == IF citizen1 = None /\ StartsWith(sub_cit, WordTotal) THEN j + 1 ELSE total0
  IN  [total_idx |-> total1, citizen_idx |-> citizen1]

\* year_map after columns 1..k of the header row.
RECURSIVE BuildYearMapB(_, _, _)
BuildYearMapB(d, hdr, k) ==
  IF k = 0 THEN <<>>
  ELSE LET before == BuildYearMapB(d, hdr, k - 1)
           cell == YearCellB(d, hdr, k)
           idx == SubHeaderIdxB(d, hdr, k)
       IN  IF MatchesYear(cell)
             THEN DictSet(before, [year |-> DigitsValue(cell), total_idx |-> idx.total_idx,
                                   citizen_idx |-> idx.citizen_idx])
             ELSE before

\* df.iat[header_row + 1, j] is out of bounds when the header row is the last.
YearMapRaisesB(d, hdr) ==
  /\ hdr + 1 >= NRows(d)
  /\ \E j \in 1..(NCols(d) - 1) : MatchesYear(YearCellB(d, hdr, j))

\* The skip test of the a5b data loop.
SkipsRowB(state) == state = <<>> \/ state = WordNan \/ Lower(state) = WordUnitedStates

\* Mutant: citizen preferred in a5b.
col_idx_citizen_first(e) == IF e.citizen_idx # None THEN e.citizen_idx ELSE e.total_idx

\* col_idx of one year_map entry: total preferred.
col_idx_a5b(e) == IF e.total_idx # None THEN e.total_idx ELSE e.citizen_idx

RowRecordsB(d, i, state, ym) ==
  LET cand == [k \in 1..Len(ym) |->
                 LET col_idx == col_idx_a5b(ym[k])
                 IN  [year |-> ym[k].year, state |-> state,
                      turnout |-> IF col_idx = None \/ col_idx >= NCols(d) THEN PyNone
                                  ELSE clean_percentage_like_a5b(Iat(d, i, col_idx))]]
  IN  SelectSeq(cand, LAMBDA x : x.turnout.t # "none")

\* The for loop over range(header_row + 2, len(df)) from row i.
RECURSIVE ExtractB(_, _, _)
ExtractB(d, i, ym) ==
  IF ~(i < NRows(d)) THEN <<>>
  ELSE LET state == Strip(PyStr(Iat(d, i, 0)))
       IN  IF SkipsRowB(state) THEN ExtractB(d, i + 1, ym)
           ELSE RowRecordsB(d, i, state, ym) \o ExtractB(d, i + 1, ym)

(***************************************************************************)
(* The sheets the model reads                                              *)
(***************************************************************************)
T(s) == PyText(s)
Alabama == T(<<"A", "l", "a", "b", "a", "m", "a">>)
Alaska == T(<<"A", "l", "a", "s", "k", "a">>)
UnitedStates == T(<<"U", "n", "i", "t", "e", "d", " ", "S", "t", "a", "t", "e", "s">>)
Total == T(<<"T", "o", "t", "a", "l">>)
Citizen == T(<<"C", "i", "t", "i", "z", "e", "n">>)
Empty == T(<<>>)

\* Rows of four cells that sheets are assembled from.
RowState == <<T(<<"S", "t", "a", "t", "e">>), PyInt(2020), PyInt(2016), PyInt(2012)>>
RowYears == <<NaN, T(<<" ", "2", "0", "2", "0">>), T(<<"2", "0", "1", "6">>), PyInt(2016)>>
RowSub == <<NaN, Total, Citizen, Total>>
RowAlabama == <<Alabama, T(<<"6", "3", ".", "6", "%">>), T(<<"5", "9", ".", "1">>), NaN>>
RowAlabama2 == <<Alabama, Fin(FALSE, 612, -1), PyInt(60), T(<<"1", ",", "2", "3", "4", ".", "5">>)>>
RowAlaska == <<Alaska, T(<<"n", "/", "a">>), T(<<" ", "5", "8", ".", "2", " ">>), Fin(FALSE, 0, 0)>>
RowUS == <<UnitedStates, T(<<"7", "0", ".", "0", "%">>), T(<<"6", "5", ".", "0">>), Fin(FALSE, 668, -1)>>

Pool == {RowState, RowYears, RowSub, RowAlabama, RowAlabama2, RowAlaska, RowUS}

MaxRows == 4
PoolGrids == UNION {[1..n -> Pool] : n \in 0..MaxRows}

\* Scenario A of the specification: three columns, two year tokens.
ScenarioA ==
  << <<Empty, PyInt(2020), PyInt(2016)>>,
     <<Empty, Total, Total>>,
     <<Alabama, T(<<"6", "3", ".", "6", "%">>), T(<<"5", "9", ".", "1">>)>> >>

\* Scenario A with a third year column.
ScenarioA3 ==
  << <<Empty, PyInt(2020), PyInt(2016), PyInt(2012)>>,
     <<Empty, Total, Total, Total>>,
     <<Alabama, T(<<"6", "3", ".", "6", "%">>), T(<<"5", "9", ".", "1">>), PyInt(55)>> >>

\* Scenario B: the data row is the aggregate row.
ScenarioB == <<ScenarioA3[1], ScenarioA3[2], RowUS>>

RowCaption == <<T(<<"T", "a", "b", "l", "e", " ", "2">>), NaN, NaN, NaN>>
RowNoLabel == <<PyNone, PyInt(1), PyInt(2), PyInt(3)>>
RowEmptyLabel == <<T(<<" ">>), PyInt(1), PyInt(2), PyInt(3)>>

\* Scenario C: two stacked blocks with a caption row between them.
ScenarioC == <<RowState, RowSub, RowAlaska, RowAlabama, RowCaption,
               RowYears, RowSub, RowNoLabel, RowAlabama2, RowEmptyLabel, RowAlaska>>

\* Scenario D: a 'Citizen, VEP' sub-header beside a total column.
CitizenVEP == T(<<"C", "i", "t", "i", "z", "e", "n", ",", " ", "V", "E", "P">>)
ScenarioD ==
  << <<T(<<"S", "T", "A", "T", "E">>), PyInt(2020), NaN, PyInt(2016), T(<<"2", "0", "1", "2">>)>>,
     <<NaN, Total, CitizenVEP, CitizenVEP, NaN>>,
     <<Alabama, PyInt(61), T(<<"6", "3", ".", "6", "%">>), T(<<"5", "9", ".", "1">>), PyInt(50)>>,
     <<Alaska, PyInt(60), NaN, T(<<"N", "a", "N">>), T(<<"n", "a", "n", "%">>)>> >>

\* Year-like cells in digits that int() rejects: in a scanned row, in the last row.
Superscript2020 == T(<<"U+00B2", "U+2070", "U+00B2", "U+2070">>)
ScenarioBadHeader == << <<NaN, Superscript2020, PyInt(2016), PyInt(2012)>>, RowSub, RowAlabama>>
ScenarioBadLast == <<RowState, RowSub, <<Alabama, Superscript2020, NaN, NaN>> >>

\* A 'Total' column under every year, none for citizens.
RowSubTotals == <<NaN, Total, Total, Total>>
ScenarioTotals == <<RowState, RowSubTotals, RowAlabama2>>

ScenarioGrids == {ScenarioA, ScenarioA3, ScenarioB, ScenarioC, ScenarioD,
                  ScenarioBadHeader, ScenarioBadLast, ScenarioTotals}


(***************************************************************************)
(* normalize_a5a and normalize_a5b, step by step                           *)
(***************************************************************************)
NoBlocksMsg == "ValueError: Could not detect any header blocks in a5a.xlsx"
NoHeaderMsg == "ValueError: Could not locate header row with State in column A"
NoYearsMsg == "ValueError: Failed to detect year columns in a5b.xlsx"

Init ==
  /\ prog \in {"a5a", "a5b"}
  /\ (df \in PoolGrids \/ df \in ScenarioGrids)
  /\ pc = "start"
  /\ blocks = <<>>
  /\ bi = 0
  /\ visited = <<>>
  /\ all_records = <<>>
  /\ unsorted = <<>>
  /\ header_row = None
  /\ year_map = <<>>
  /\ err = ""
  /\ arg = PyNone
  /\ ret = PyNone

\* blocks = find_header_blocks(df)
A5aDetect ==
  /\ prog = "a5a" /\ pc = "start"
  /\ LET res == find_header_blocks(df)
     IN  IF res.exc # ""
           THEN pc' = "raised" /\ err' = res.exc /\ blocks' = blocks
           ELSE pc' = "detected" /\ err' = err /\ blocks' = res.blocks
  /\ UNCHANGED <<prog, df, bi, visited, all_records, unsorted, header_row, year_map, arg, ret>>

\* Mutant: the emptiness test never fires.
NoBlocksNever(b) == FALSE

\* not blocks
NoBlocks(b) == b = <<>>

\* if not blocks: raise ValueError(...)
A5aRaiseNoBlocks ==
  /\ prog = "a5a" /\ pc = "detected"
  /\ NoBlocks(blocks)
  /\ pc' = "raised"
  /\ err' = NoBlocksMsg
  /\ UNCHANGED <<prog, df, blocks, bi, visited, all_records, unsorted, header_row, year_map, arg, ret>>

\* One turn of the for loop: all_records.extend(parse_block(df, header_row, year_map))
A5aParseBlock ==
  /\ prog = "a5a" /\ pc = "detected"
  /\ ~NoBlocks(blocks)
  /\ bi < Len(blocks)
  /\ LET b == blocks[bi + 1]
         res == parse_block(df, b.header_row, b.year_map)
     IN  IF res.exc # ""
           THEN pc' = "raised" /\ err' = res.exc
                /\ UNCHANGED <<bi, visited, all_records>>
           ELSE pc' = pc /\ err' = err
                /\ bi' = bi + 1
                /\ visited' = Append(visited, res.rows)
                /\ all_records' = all_records \o res.records
  /\ UNCHANGED <<prog, df, blocks, unsorted, header_row, year_map, arg, ret>>

\* all_records.sort(...); return all_records
A5aSort ==
  /\ prog = "a5a" /\ pc = "detected"
  /\ ~NoBlocks(blocks)
  /\ bi = Len(blocks)
  /\ unsorted' = all_records
  /\ all_records' = SortRecords(all_records)
  /\ pc' = "done"
  /\ UNCHANGED <<prog, df, blocks, bi, visited, header_row, year_map, err, arg, ret>>

\* The search for the header row, and its ValueError.
A5bFindHeader ==
  /\ prog = "a5b" /\ pc = "start"
  /\ header_row' = find_state_row(df)
  /\ IF header_row' = None THEN pc' = "raised" /\ err' = NoHeaderMsg
     ELSE pc' = "header" /\ err' = err
  /\ UNCHANGED <<prog, df, blocks, bi, visited, all_records, unsorted, year_map, arg, ret>>

\* The year_map loop, its IndexError and the ValueError for an empty map.
A5bBuildYearMap ==
  /\ prog = "a5b" /\ pc = "header"
  /\ IF YearMapRaisesB(df, header_row)
       THEN pc' = "raised" /\ err' = "IndexError: index is out of bounds" /\ year_map' = year_map
       ELSE LET ym == BuildYearMapB(df, header_row, NCols(df) - 1)
            IN  IF ym = <<>> THEN pc' = "raised" /\ err' = NoYearsMsg /\ year_map' = year_map
                ELSE pc' = "mapped" /\ err' = err /\ year_map' = ym
  /\ UNCHANGED <<prog, df, blocks, bi, visited, all_records, unsorted, header_row, arg, ret>>

\* The data loop, records.sort(...) and the return.
A5bExtract ==
  /\ prog = "a5b" /\ pc = "mapped"
  /\ unsorted' = ExtractB(df, header_row + 2, year_map)
  /\ all_records' = SortRecords(unsorted')
  /\ pc' = "done"
  /\ UNCHANGED <<prog, df, blocks, bi, visited, header_row, year_map, err, arg, ret>>

Next ==
  \/ A5aDetect
  \/ A5aRaiseNoBlocks
  \/ A5aParseBlock
  \/ A5aSort
  \/ A5bFindHeader
  \/ A5bBuildYearMap
  \/ A5bExtract

Spec == Init /\ [][Next]_vars

(***************************************************************************)
(* The helpers on their own: one call of a cleaner, one call of            *)
(* is_year_str, on every scalar or string of a bounded set                 *)
(***************************************************************************)
Strings(alphabet, n) == UNION {[1..k -> alphabet] : k \in 0..n}

MaxCleanLen == 4
CleanAlphabet == {"1", ".", "%", ",", " ", "n", "a", "i", "f"}

\* Longer texts worth a call of their own.
CleanTexts ==
  {<<"6", "3", ".", "6", "%">>, <<"1", ",", "2", "3", "4", ".", "5">>,
   <<"1", "e", "9", "9", "9">>, <<"1", "e", "-", "9", "9", "9">>, <<"-", "i", "n", "f">>,
   <<"I", "n", "f", "i", "n", "i", "t", "y">>, <<" ", "N", "a", "N", " ">>,
   <<"n", "/", "a">>, <<"1", "_", "0">>, <<"+", "5", ".">>, <<"U+0662", "U+0660">>}

CleanInputs ==
  {PyNone, PyInt(0), PyInt(61), PyInt(-3), NaN, Inf(FALSE), Inf(TRUE),
   Fin(FALSE, 636, -1), Fin(TRUE, 5, -1)}
  \cup {PyText(t) : t \in CleanTexts}

InitHelper ==
  /\ df = <<>>
  /\ pc = "call"
  /\ blocks = <<>>
  /\ bi = 0
  /\ visited = <<>>
  /\ all_records = <<>>
  /\ unsorted = <<>>
  /\ header_row = None
  /\ year_map = <<>>
  /\ err = ""
  /\ ret = PyNone

InitClean ==
  /\ prog \in {"clean_a5a", "clean_a5b"}
  /\ (arg \in CleanInputs \/ arg \in {PyText(t) : t \in Strings(CleanAlphabet, MaxCleanLen)})
  /\ InitHelper

CallCleanA5a ==
  /\ prog = "clean_a5a" /\ pc = "call"
  /\ ret' = clean_percentage_like(arg)
  /\ pc' = "returned"
  /\ UNCHANGED <<prog, df, blocks, bi, visited, all_records, unsorted, header_row, year_map, err, arg>>

CallCleanA5b ==
  /\ prog = "clean_a5b" /\ pc = "call"
  /\ ret' = clean_percentage_like_a5b(arg)
  /\ pc' = "returned"
  /\ UNCHANGED <<prog, df, blocks, bi, visited, all_records, unsorted, header_row, year_map, err, arg>>

NextClean ==
  \/ CallCleanA5a
  \/ CallCleanA5b

SpecClean == InitClean /\ [][NextClean]_vars

MaxYearText == 5
YearAlphabet == {"0", "1", "2", "9", " ", "U+0662", "U+00B2"}
YearTexts ==
  {<<"2", "0", "2", "0", ".", "0">>, <<"2", "0", "a", "0">>, <<"1", "8", "9", "9">>,
   <<"U+0009", "2", "1", "0", "0", "U+000A">>, <<"U+00A0", "1", "9", "0", "0", " ", " ">>}

InitYear ==
  /\ prog = "is_year_str"
  /\ (arg \in {PyText(t) : t \in YearTexts}
      \/ arg \in {PyText(t) : t \in Strings(YearAlphabet, MaxYearText)})
  /\ InitHelper

\* ret is the int, None, or the exception the call ended with.
CallIsYearStr ==
  /\ prog = "is_year_str" /\ pc = "call"
  /\ ret' = is_year_str(arg.s)
  /\ pc' = IF ret'.t = "raise" THEN "raised" ELSE "returned"
  /\ UNCHANGED <<prog, df, blocks, bi, visited, all_records, unsorted, header_row, year_map, err, arg>>

NextYear == CallIsYearStr

SpecYear == InitYear /\ [][NextYear]_vars

(***************************************************************************)
(* Properties                                                              *)
(***************************************************************************)
\* The columns 1.. of row i that hold a period token.
TokenCells(d, i) ==
  {j \in 1..(NCols(d) - 1) : is_year_str(Strip(PyStr(Iat(d, i, j)))).t = "int"}

\* The period values of row i.
TokenValues(d, i) ==
  {is_year_str(Strip(PyStr(Iat(d, i, j)))).v : j \in TokenCells(d, i)}

Anchor(k) == blocks[k].header_row
Label(r) == IF Iat(df, r, 0).t = "none" THEN <<>> ELSE Strip(PyStr(Iat(df, r, 0)))
Rec(y, st, val) == [year |-> y, state |-> st, turnout |-> val]

\* A label of one of the four skipped kinds.
SkipLabel(label) ==
  \/ label = <<>>
  \/ Lower(label) = <<"n", "a", "n">>
  \/ StartsWith(Lower(label), <<"t", "a", "b", "l", "e">>)
  \/ Lower(label) = <<"u", "n", "i", "t", "e", "d", " ", "s", "t", "a", "t", "e", "s">>

\* The column of the first variant of a preference list that an entry maps.
VariantCol(e, v) == IF v = "total" THEN e.total_idx ELSE e.citizen_idx
RECURSIVE FirstMapped(_, _)
FirstMapped(pref, e) ==
  IF pref = <<>> THEN None
  ELSE IF VariantCol(e, Head(pref)) # None THEN VariantCol(e, Head(pref))
  ELSE FirstMapped(Tail(pref), e)
PrefA5a == <<"citizen", "total">>
PrefA5b == <<"total", "citizen">>

\* Where the claim as written ends block k: the next anchor, else the grid's end.
WrittenEnd(k) == IF k < Len(blocks) THEN Anchor(k + 1) ELSE NRows(df)

\* Where block k ends: the next anchor; else the last row when that row holds
\* three period tokens below the block's sub-header; else the grid's end.
LastRowLooksLikeHeader == NRows(df) > 0 /\ Cardinality(TokenCells(df, NRows(df) - 1)) >= 3
RegionEnd(k) ==
  IF k < Len(blocks) THEN Anchor(k + 1)
  ELSE IF LastRowLooksLikeHeader /\ NRows(df) - 1 >= Anchor(k) + 2 THEN NRows(df) - 1
  ELSE NRows(df)
Region(k) == (Anchor(k) + 2)..(RegionEnd(k) - 1)

\* C1 as written: anchors strictly increase and parse_block visits exactly the
\* rows from anchor + 2 up to the next returned anchor, or through the last
\* grid row when no later block exists.
C1_RegionsAsWritten ==
  prog = "a5a" =>
    /\ \A k \in 1..(Len(blocks) - 1) : Anchor(k) < Anchor(k + 1)
    /\ \A k \in 1..Len(visited) : visited[k] = (Anchor(k) + 2)..(WrittenEnd(k) - 1)

\* C1 amended: anchors strictly increase; parse_block visits exactly the rows
\* from anchor + 2 up to the next returned anchor, or, for the last block, up
\* to the grid's end, short of the last row when that row holds three period
\* tokens (it is never returned as a block, and parse_block stops at it); no
\* row is visited under two blocks.
C1_Regions ==
  prog = "a5a" =>
    /\ \A k \in 1..(Len(blocks) - 1) : Anchor(k) < Anchor(k + 1)
    /\ \A k \in 1..Len(visited) : visited[k] = Region(k)
    /\ \A k, m \in 1..Len(visited) : k # m => visited[k] \cap visited[m] = {}

\* Two blocks parsed, each with rows, the first stopping at the second's anchor.
C1_Witness ==
  /\ prog = "a5a" /\ pc = "done" /\ Len(visited) = 2
  /\ visited[1] # {} /\ visited[2] # {}
  /\ \A r \in visited[1] : r < Anchor(2)

\* The records of row r for the entries k.. of a year_map: one per period
\* with a resolved column whose cell cleans to a present value.
RECURSIVE ExpectedRow(_, _, _)
ExpectedRow(r, ym, k) ==
  IF k > Len(ym) THEN <<>>
  ELSE LET c == FirstMapped(PrefA5a, ym[k])
           val == IF c = None THEN PyNone ELSE clean_percentage_like(Iat(df, r, c))
       IN  (IF val = PyNone THEN <<>> ELSE <<Rec(ym[k].year, Label(r), val)>>)
           \o ExpectedRow(r, ym, k + 1)

\* The records of the visited, non-skipped rows r.. of block k.
RECURSIVE ExpectedRows(_, _)
ExpectedRows(k, r) ==
  IF r >= NRows(df) THEN <<>>
  ELSE (IF r \in visited[k] /\ ~SkipLabel(Label(r))
          THEN ExpectedRow(r, blocks[k].year_map, 1) ELSE <<>>)
       \o ExpectedRows(k, r + 1)

RECURSIVE ExpectedUpTo(_)
ExpectedUpTo(k) ==
  IF k = 0 THEN <<>> ELSE ExpectedUpTo(k - 1) \o ExpectedRows(k, Anchor(k) + 2)

\* C2: the records parse_block has emitted are, block by block and row by
\* row, exactly one record (period, trimmed label, cleaned value) per
\* non-skipped row and period whose resolved column holds a present value,
\* and nothing else.
C2_Records ==
  prog = "a5a" =>
    /\ pc = "detected" => all_records = ExpectedUpTo(Len(visited))
    /\ pc = "done" => unsorted = ExpectedUpTo(Len(visited))

\* A parsed row that gave a record for one period and none for another.
C2_Witness ==
  /\ prog = "a5a" /\ pc = "detected" /\ Len(visited) > 0
  /\ \E r \in visited[1] :
       /\ ~SkipLabel(Label(r))
       /\ Len(ExpectedRow(r, blocks[1].year_map, 1)) > 0
       /\ Len(ExpectedRow(r, blocks[1].year_map, 1)) < Len(blocks[1].year_map)
  /\ all_records # <<>>

\* C3: a run whose detection returned no block ends in the ValueError of
\* normalize_a5a without a call of parse_block, and parse_block runs only
\* with at least one block found.
C3_NoBlocksRaises ==
  prog = "a5a" =>
    /\ (pc = "detected" /\ blocks = <<>>) =>
         ENABLED A5aRaiseNoBlocks /\ ~ENABLED A5aParseBlock /\ ~ENABLED A5aSort
    /\ (pc = "raised" /\ err = NoBlocksMsg) =>
         blocks = <<>> /\ bi = 0 /\ visited = <<>> /\ all_records = <<>>
    /\ pc = "done" => blocks # <<>>
    /\ (bi > 0 \/ visited # <<>>) => blocks # <<>>

\* A sheet of three rows or more in which no block was found.
C3_Witness ==
  prog = "a5a" /\ pc = "raised" /\ err = NoBlocksMsg /\ NRows(df) >= 3

F636 == Fin(FALSE, 636, -1)
F591 == Fin(FALSE, 591, -1)
AlabamaLabel == <<"A", "l", "a", "b", "a", "m", "a">>

\* C4 as written: scenario A ends with one block and the two records.
C4_ScenarioAAsWritten ==
  (prog = "a5a" /\ df = ScenarioA /\ pc \in {"raised", "done"}) =>
    /\ pc = "done"
    /\ Len(blocks) = 1
    /\ all_records = <<Rec(2016, AlabamaLabel, F591), Rec(2020, AlabamaLabel, F636)>>

\* C4 amended: on scenario A (two period tokens in the anchor row, under the
\* threshold of three) no block is detected and the run ends in the
\* ValueError with no record; with a third year column (2012, 'Total', 55)
\* one block is detected and the run returns (2012, Alabama, 55.0),
\* (2016, Alabama, 59.1), (2020, Alabama, 63.6) in that order.
C4_ScenarioA ==
  /\ (prog = "a5a" /\ df = ScenarioA /\ pc # "start") =>
       blocks = <<>> /\ all_records = <<>> /\ (pc = "raised" => err = NoBlocksMsg)
       /\ pc \in {"detected", "raised"}
  /\ (prog = "a5a" /\ df = ScenarioA3 /\ pc = "done") =>
       /\ Len(blocks) = 1
       /\ all_records = <<Rec(2012, AlabamaLabel, Fin(FALSE, 55, 0)),
                          Rec(2016, AlabamaLabel, F591), Rec(2020, AlabamaLabel, F636)>>

\* Scenario A has run to its end.
C4_Witness == prog = "a5a" /\ df = ScenarioA /\ pc = "raised"

\* The state labels of the records emitted so far.
RecordLabels == {all_records[n].state : n \in 1..Len(all_records)}

EntriesA5a == UNION {{blocks[k].year_map[n] : n \in 1..Len(blocks[k].year_map)} : k \in 1..Len(blocks)}
EntriesA5b == {year_map[n] : n \in 1..Len(year_map)}

\* C6: the resolved column is that of the first mapped variant in the
\* preference order, citizen then total in a5a and total then citizen in a5b,
\* and none only when neither is mapped; scenario D takes the citizen column
\* in a5a although a total column is mapped too.
C6_Preference ==
  /\ prog = "a5a" => \A e \in EntriesA5a :
       /\ col_idx_a5a(e) = FirstMapped(PrefA5a, e)
       /\ col_idx_a5a(e) = None <=> (e.total_idx = None /\ e.citizen_idx = None)
       /\ (e.citizen_idx # None /\ e.total_idx # None) => col_idx_a5a(e) = e.citizen_idx
  /\ prog = "a5b" => \A e \in EntriesA5b :
       /\ col_idx_a5b(e) = FirstMapped(PrefA5b, e)
       /\ col_idx_a5b(e) = None <=> (e.total_idx = None /\ e.citizen_idx = None)
  /\ (df = ScenarioD /\ pc = "done") =>
       \E n \in 1..Len(all_records) :
         all_records[n] = Rec(2020, AlabamaLabel,
                              IF prog = "a5a" THEN F636 ELSE Fin(FALSE, 61, 0))

\* Entries with both variants on different columns, only one, and neither.
C6_Witness ==
  /\ pc = "done" /\ df = ScenarioD
  /\ prog = "a5b"
  /\ \E e \in EntriesA5b : e.total_idx # None /\ e.citizen_idx # None /\ e.total_idx # e.citizen_idx
  /\ \E e \in EntriesA5b : e.total_idx = None /\ e.citizen_idx # None
  /\ \E e \in EntriesA5b : e.total_idx = None /\ e.citizen_idx = None

Occurrences(seq, x) == Cardinality({n \in 1..Len(seq) : seq[n] = x})
SameKey(a, b) == a.year = b.year /\ a.state = b.state
KeyAtMost(a, b) == a.year < b.year \/ (a.year = b.year /\ ~StrLess(b.state, a.state))
WithKey(seq, x) == SelectSeq(seq, LAMBDA y : SameKey(x, y))

\* C7: what normalize_a5a returns is a permutation of the blocks' records in
\* emission order (nothing dropped, added or merged), non-decreasing by
\* (year, state), with records of equal (year, state) in emission order.
C7_SortedPermutation ==
  (prog = "a5a" /\ pc = "done") =>
    /\ Len(all_records) = Len(unsorted)
    /\ \A n \in 1..Len(unsorted) :
         Occurrences(all_records, unsorted[n]) = Occurrences(unsorted, unsorted[n])
    /\ \A n \in 1..(Len(all_records) - 1) : KeyAtMost(all_records[n], all_records[n + 1])
    /\ \A n \in 1..Len(unsorted) : WithKey(all_records, unsorted[n]) = WithKey(unsorted, unsorted[n])

\* Two blocks gave records of one (year, state) with different values, and
\* the sort moved records.
C7_Witness ==
  /\ prog = "a5a" /\ pc = "done" /\ Len(blocks) >= 2
  /\ all_records # unsorted
  /\ \E n, m \in 1..Len(unsorted) :
       n < m /\ SameKey(unsorted[n], unsorted[m]) /\ unsorted[n] # unsorted[m]

\* C8 as written: every returned anchor row holds three distinct period values.
C8_DistinctAsWritten ==
  prog = "a5a" => \A k \in 1..Len(blocks) : Cardinality(TokenValues(df, Anchor(k))) >= 3

\* C8 amended: every returned anchor row holds at least three period-token
\* cells in columns 1.., which need not be three distinct period values, and
\* its year_map has an entry for each value.
C8_TokenCells ==
  prog = "a5a" => \A k \in 1..Len(blocks) :
    /\ Cardinality(TokenCells(df, Anchor(k))) >= 3
    /\ {blocks[k].year_map[n].year : n \in 1..Len(blocks[k].year_map)} = TokenValues(df, Anchor(k))

\* A returned anchor row of three tokens and two values.
C8_Witness ==
  /\ prog = "a5a" /\ pc = "done"
  /\ \E k \in 1..Len(blocks) :
       Cardinality(TokenCells(df, Anchor(k))) = 3 /\ Cardinality(TokenValues(df, Anchor(k))) = 2

\* C9: a cleaner returns, for every scalar, absent or a finite number, and
\* never raises; nan and unparseable text give absent.
C9_FiniteOrAbsent ==
  (prog \in {"clean_a5a", "clean_a5b"} /\ pc = "returned") =>
    /\ ret = PyNone \/ IsFinite(ret)
    /\ arg = NaN => ret = PyNone
    /\ (arg.t = "str" /\ ParseFloat(Unformat(Strip(arg.s))).t = "raise") => ret = PyNone

\* A trimmed string of exactly four ASCII digits with a value in [1900, 2100].
IsAsciiYear(s) ==
  /\ Len(s) = 4
  /\ \A n \in 1..Len(s) : IsAsciiDigit(s[n])
  /\ 1900 <= DigitsValue(s) /\ DigitsValue(s) <= 2100

\* C10: is_year_str returns y exactly for a string that trims to four ASCII
\* digits with 1900 <= y <= 2100, and 'not a period', without raising, for
\* every other string.
C10_AsciiYearsOnly ==
  (prog = "is_year_str" /\ pc # "call") =>
    IF IsAsciiYear(Strip(arg.s)) THEN ret = PyInt(DigitsValue(Strip(arg.s)))
    ELSE ret = PyNone

\* The anchors returned, and the sub-header rows beneath them.
Anchors == {Anchor(k) : k \in 1..Len(blocks)}
SubHeaderRows == {a + 1 : a \in Anchors}
HeaderLike(i) == Cardinality(TokenCells(df, i)) >= 3

\* C11 as written: every row with at least three period tokens that is not
\* the sub-header row of a returned block is itself a returned anchor, the
\* last row of the grid included.
C11_EveryRowAsWritten ==
  (prog = "a5a" /\ pc \in {"detected", "done"}) =>
    \A i \in 0..(NRows(df) - 1) : (HeaderLike(i) /\ i \notin SubHeaderRows) => i \in Anchors

\* C11 amended: every row but the last of the grid that has at least three
\* period tokens and is not the sub-header row of a returned block is a
\* returned anchor; the last row of the grid is never a returned anchor; and
\* every returned anchor is such a row.
C11_EveryRowButLast ==
  (prog = "a5a" /\ pc \in {"detected", "done"}) =>
    /\ \A i \in 0..(NRows(df) - 2) : (HeaderLike(i) /\ i \notin SubHeaderRows) => i \in Anchors
    /\ (NRows(df) - 1) \notin Anchors
    /\ \A i \in Anchors : HeaderLike(i) /\ i \in 0..(NRows(df) - 2)

\* A header found after a row that is none, in a grid whose last row has
\* three period tokens and lies under no returned sub-header.
C11_Witness ==
  /\ prog = "a5a" /\ pc = "detected"
  /\ \E i \in Anchors : i > 0
  /\ HeaderLike(NRows(df) - 1)
  /\ (NRows(df) - 1) \notin SubHeaderRows

\* The sub-header text beneath column j, and the column an entry was read at:
\* the last column of the header row holding the entry's year.
SubText(sub_r, j) ==
  IF j < NCols(df) THEN Lower(Strip(PyStr(Iat(df, sub_r, j)))) ELSE <<>>
IsTotalText(t) == StartsWith(t, <<"t", "o", "t", "a", "l">>)
IsCitizenText(t) == StartsWith(t, <<"c", "i", "t", "i", "z", "e", "n">>)
YearColsA5a(i, y) ==
  {j \in TokenCells(df, i) : is_year_str(Strip(PyStr(Iat(df, i, j)))).v = y}
YearColsA5b(i, y) ==
  {j \in 1..(NCols(df) - 1) :
     /\ MatchesYear(Strip(PyStr(Iat(df, i, j))))
     /\ DigitsValue(Strip(PyStr(Iat(df, i, j)))) = y}
LastOf(cols) == CHOOSE j \in cols : \A m \in cols : m <= j

\* The entry e read at column j above sub-header row sub_r takes column j for
\* a variant whose label is at j, and j + 1 only when the label at j is not
\* that variant's.
OwnColumnFirst(e, sub_r, j) ==
  /\ IsTotalText(SubText(sub_r, j)) => e.total_idx = j
  /\ e.total_idx = j + 1 => ~IsTotalText(SubText(sub_r, j))
  /\ e.citizen_idx = j + 1 => ~IsCitizenText(SubText(sub_r, j))
  /\ e.total_idx \in {None, j, j + 1} /\ e.citizen_idx \in {None, j, j + 1}

\* C12: in find_header_blocks of a5a and in normalize_a5b, a period whose
\* sub-header cell at its own column j starts with 'total' has total column
\* j, whatever the cell at j + 1 holds, and column j + 1 serves a variant
\* only when the cell at j does not match that variant.
C12_OwnColumnFirst ==
  /\ (prog = "a5a" /\ pc \in {"detected", "done"}) =>
       \A k \in 1..Len(blocks) : \A n \in 1..Len(blocks[k].year_map) :
         LET e == blocks[k].year_map[n]
         IN  OwnColumnFirst(e, Anchor(k) + 1, LastOf(YearColsA5a(Anchor(k), e.year)))
  /\ (prog = "a5b" /\ pc \in {"mapped", "done"}) =>
       \A n \in 1..Len(year_map) :
         LET e == year_map[n]
         IN  OwnColumnFirst(e, header_row + 1, LastOf(YearColsA5b(header_row, e.year)))

\* C12 for find_header_blocks of a5a alone.
C12_A5aOnly ==
  (prog = "a5a" /\ pc \in {"detected", "done"}) =>
    \A k \in 1..Len(blocks) : \A n \in 1..Len(blocks[k].year_map) :
      OwnColumnFirst(blocks[k].year_map[n], Anchor(k) + 1,
                     LastOf(YearColsA5a(Anchor(k), blocks[k].year_map[n].year)))

====
